---- MODULE Spec2Model ----
(***************************************************************************)
(* Model of the AMD-SVM intercept dispatcher (vm/amd/amd_intercept.c) and  *)
(* of the guest helper functions (arch_guest_helper.c) of xvisor-next.     *)
(*                                                                         *)
(* Representation of values:                                               *)
(*  - machine words that are used as bit vectors (CR0, general registers,  *)
(*    exitinfo1) are sets of bit positions: {0, 31} is 0x80000001.  & is   *)
(*    \cap, | is \cup, ~a & b is b \ a.                                    *)
(*  - addresses, sizes, instruction pointers and table indices are         *)
(*    integers, with the shift amounts and masks of the source.            *)
(***************************************************************************)
EXTENDS Integers, Sequences, FiniteSets, TLC

VARIABLES
    shadow32_pgt,       \* context->shadow32_pgt[]: page-directory entries
    shadow32_pg_map,    \* context->shadow32_pg_map: bitmap, the set of set bits
    pgmap_free_cache,   \* context->pgmap_free_cache
    pg_mem,             \* host memory holding page-table pages, by pool index
    vmcb,               \* context->vmcb: the hardware control block
    g_regs,             \* context->g_regs[]: the guest's general registers
    g_cr0,              \* context->g_cr0: the guest's view of CR0
    g_cr1,              \* context->g_cr1
    g_cr2,              \* context->g_cr2
    g_cr3,              \* context->g_cr3
    decode_assist,      \* context->cpuinfo->decode_assist
    vcpu_emergency_shutdown, \* context->vcpu_emergency_shutdown is not NULL
    standard_funcs,     \* priv->standard_funcs[]: CPUID responses
    extended_funcs,     \* priv->extended_funcs[]: CPUID responses
    regions,            \* the guest's address-space regions
    tot_ram_sz,         \* priv->tot_ram_sz: the guest's RAM counter
    ioport_intercept,   \* per VCPU, the ports whose intercept is enabled
    vcpu_lock,          \* guest->vcpu_lock: the number of read holders
    hung,               \* vmm_hang() was called: the servicing thread spins
    physmem,            \* host memory holding the guest's page tables
    panicked,           \* vmm_panic() was called: the host has stopped
    ok_vaddrs,          \* the addresses realmode_map_memory has mapped (history)
    last                \* what the last call did (observation only)

vars == <<shadow32_pgt, shadow32_pg_map, pgmap_free_cache, pg_mem, vmcb,
          g_regs, g_cr0, g_cr1, g_cr2, g_cr3, decode_assist,
          vcpu_emergency_shutdown, standard_funcs, extended_funcs, regions,
          tot_ram_sz, ioport_intercept, vcpu_lock,
          hung, physmem, panicked, ok_vaddrs, last>>

shadow_vars == <<shadow32_pgt, shadow32_pg_map, pgmap_free_cache, pg_mem>>

\* what the region notifications write
guest_vars == <<regions, tot_ram_sz, ioport_intercept, vcpu_lock>>

\* what no handler writes
fixed_vars == <<g_cr1, g_cr2, g_cr3, decode_assist, vcpu_emergency_shutdown,
                standard_funcs, extended_funcs, guest_vars, physmem>>

ctx_vars == <<vmcb, g_regs, g_cr0, hung, fixed_vars>>

----------------------------------------------------------------------------
(* Bounds of the model *)

\* pages in the shadow page-table pool (NR_32BIT_PGLIST_PAGES in the source)
PoolPages == 2

\* page-directory slots that the modelled addresses use (of the 1024)
PdEntries == 5

\* page-table slots per page that the modelled addresses use (of the 1024)
PtEntries == 2

\* the largest value of the RAM counter that is followed, in pages
MaxRamPages == 8

----------------------------------------------------------------------------
(* Integer helpers *)

Pow2(n) == 2 ^ n

\* x >> n on a non-negative integer
Shr(x, n) == x \div Pow2(n)

\* x & (2^n - 1)
LowBits(x, n) == x % Pow2(n)

PAGE_SHIFT == 12

PAGE_SIZE == Pow2(PAGE_SHIFT)

\* return codes of vmm_error.h
VMM_OK == "VMM_OK"

VMM_EFAIL == "VMM_EFAIL"

\* the negative error code bitmap_find_free_region returns when nothing is free
VMM_ENOMEM == 0 - 7

----------------------------------------------------------------------------
(* Control-register bits (the architecture's positions) *)

X86_CR0_PE == {0}

X86_CR0_NW == {29}

X86_CR0_CD == {30}

X86_CR0_PG == {31}

\* General registers: g_regs[] is indexed by the decoder's register ids,
\* RM_REG_AX (0) up to below RM_REG_MAX.
RM_REG_AX == 0

RM_REG_MAX == 8

Regs == RM_REG_AX .. (RM_REG_MAX - 1)

\* a CPUID response table with nothing in it
NoCpuidFuncs == [i \in {} |-> {}]

\* the control block of a context that has not run yet
ResetVmcb == [exitcode |-> 0 - 1, exitinfo1 |-> {}, exitinfo2 |-> 0,
              rip |-> 0, rax |-> {}, cr0 |-> {}, cr2 |-> 0, cr3 |-> 0,
              cs_sel |-> 0]

----------------------------------------------------------------------------
(* Address translation: gva_to_gpa, gpa_to_hpa                             *)

\* a | b on non-negative integers
RECURSIVE BitOr(_, _)
BitOr(a, b) ==
    IF a = 0 THEN b
    ELSE IF b = 0 THEN a
    ELSE (IF a % 2 = 1 \/ b % 2 = 1 THEN 1 ELSE 0)
         + 2 * BitOr(a \div 2, b \div 2)

\* (u32)x: the low 32 bits, taken as two 16-bit halves
U32(x) == (x % 65536) + 65536 * ((x \div 65536) % 65536)

\* x & ~0xfff
ClearLow12(x) == x - LowBits(x, 12)

\* mutant: the selector is used without the shift
SegmentBase_unshifted(sel) == sel

\* context->vmcb->cs.sel << 4
SegmentBase(sel) == sel * 16

\* gva_to_gpa(context, vaddr, &gpa): the return code, and the value stored
\* through gpa when one is stored.
GvaToGpa(cr0, sel, vaddr) ==
    IF X86_CR0_PG \cap cr0 = {}
    THEN [ret |-> VMM_OK, wrote |-> TRUE,
          gpa |-> IF X86_CR0_PE \cap cr0 = {}
                  THEN BitOr(SegmentBase(sel), vaddr)
                  ELSE vaddr]
    ELSE [ret |-> VMM_EFAIL, wrote |-> FALSE, gpa |-> 0]

\* vmm_host_memory_read of a 32-bit entry: the bytes read and the value
HostRead32(mem, addr, ok) ==
    IF ok
    THEN [len |-> 4, val |-> IF addr \in DOMAIN mem THEN mem[addr] ELSE 0]
    ELSE [len |-> 0, val |-> 0]

\* mutant: the table walk skips the present test of the directory entry
EntryPresent_always(e) == TRUE

\* e & 0x1
EntryPresent(e) == e % 2 = 1

\* (pte & PAGE_MASK) + (vaddr & ~PAGE_MASK)
LeafAddress(pte, vaddr) == ClearLow12(pte) + LowBits(vaddr, PAGE_SHIFT)

\* gpa_to_hpa(context, vaddr, &hpa); rd1_ok, rd2_ok: the host-memory read
\* of the directory entry / of the table entry is complete.
GpaToHpa(cr3, mem, vaddr, rd1_ok, rd2_ok) ==
    LET tcr3     == U32(cr3)
        pde_addr == ClearLow12(tcr3) + 4 * LowBits(Shr(vaddr, 22), 10)
        r1       == HostRead32(mem, pde_addr, rd1_ok)
        pde      == r1.val
        pte_addr == U32(ClearLow12(pde))
                    + 4 * LowBits(Shr(vaddr, 12), 10)
        r2       == HostRead32(mem, pte_addr, rd2_ok)
        pte      == r2.val
        fail     == [ret |-> VMM_EFAIL, wrote |-> FALSE, hpa |-> 0]
    IN  IF r1.len < 4 THEN fail
        ELSE IF ~EntryPresent(pde) THEN fail
        ELSE IF r2.len < 4 THEN fail
        ELSE IF ~EntryPresent(pte) THEN fail
        ELSE [ret |-> VMM_OK, wrote |-> TRUE, hpa |-> LeafAddress(pte, vaddr)]

NoTables == [a \in {} |-> 0]

----------------------------------------------------------------------------
(* Shadow page table: realmode_map_memory                                  *)

NoEntry == [present |-> FALSE, rw |-> FALSE, paddr |-> 0]

PdIndexes == 0 .. (PdEntries - 1)

PtIndexes == 0 .. (PtEntries - 1)

PoolIndexes == 0 .. (PoolPages - 1)

\* Every index the allocation code can produce: the pool, the page after
\* it (boffs + 1 of the last pool page), and the two values that follow an
\* allocation failure (the error code taken as an index, and that plus one).
PageIndexes == PoolIndexes \cup {PoolPages, VMM_ENOMEM, VMM_ENOMEM + 1}

\* (vaddr >> 22) & 0x3ff
PdIndexOf(vaddr) == LowBits(Shr(vaddr, 22), 10)

\* (vaddr >> 12) & 0x3ff
PtIndexOf(vaddr) == LowBits(Shr(vaddr, 12), 10)

\* bitmap_find_free_region(map, NR_32BIT_PGLIST_PAGES, 0): the first clear
\* bit, which it sets; a negative error code when every bit is set.
bitmap_find_free_region(map) ==
    LET free == PoolIndexes \ map IN
    IF free = {}
    THEN [pos |-> VMM_ENOMEM, map |-> map]
    ELSE LET p == CHOOSE i \in free : \A j \in free : i <= j IN
         [pos |-> p, map |-> map \cup {p}]

\* mutant: the presence test of the directory entry is lost
NeedsBackingPage_always(pde) == TRUE

\* if (!pde.present)
NeedsBackingPage(pde) == ~pde.present

\* The allocation branch: the index of the backing page for a new
\* directory entry, with the bitmap and the one-slot cache it leaves.
AllocBackingPage(map, cache) ==
    IF cache # 0
    THEN [index |-> cache, map |-> map, cache |-> 0, how |-> "cache",
          boffs |-> 0]
    ELSE LET r == bitmap_find_free_region(map) IN
         [index |-> r.pos, map |-> r.map, cache |-> r.pos + 1,
          how |-> "bitmap", boffs |-> r.pos]

\* mutant: the presence test of the page-table entry is lost
PteAlreadyMapped_never(pte) == FALSE

\* if (pte.present) return VMM_EFAIL;
PteAlreadyMapped(pte) == pte.present

\* pte.present = 1; pte.rw = 1; pte.paddr = (paddr >> PAGE_SHIFT);
\* paddr is a 20-bit field of union page32.
NewPte(pte, paddr) ==
    [pte EXCEPT !.present = TRUE, !.rw = TRUE,
                !.paddr = LowBits(Shr(paddr, PAGE_SHIFT), 20)]

\* What the host does during one call: va2pa_ok (vmm_host_va2pa succeeds;
\* it always does for a page of the pool), rd_ok / wr_ok (the host-memory
\* read / write is complete), junk (an entry outside the pool that this
\* context never wrote reads as present: the memory is not the context's).
\* A call stops at the first thing that goes wrong, so one deviation per
\* call covers every combination.
HostOk == [va2pa_ok |-> TRUE, rd_ok |-> TRUE, wr_ok |-> TRUE, junk |-> FALSE]

HostEnvs == {HostOk,
             [HostOk EXCEPT !.va2pa_ok = FALSE],
             [HostOk EXCEPT !.rd_ok = FALSE],
             [HostOk EXCEPT !.wr_ok = FALSE],
             [HostOk EXCEPT !.junk = TRUE]}

JunkEntry == [present |-> TRUE, rw |-> FALSE, paddr |-> 9]

\* vmm_host_memory_read of the entry pti of page p
ReadPte(mem, p, pti, env) ==
    IF p \notin PoolIndexes /\ ~mem[p][pti].present /\ env.junk
    THEN JunkEntry
    ELSE mem[p][pti]

\* realmode_map_memory as a function of the shadow state and of what the
\* host does.  The frame of pool page i is identified with i.
RealmodeMap(pgt, map, cache, mem, vaddr, paddr, env) ==
    LET pdi    == PdIndexOf(vaddr)
        pti    == PtIndexOf(vaddr)
        pde    == pgt[pdi]
        fresh  == NeedsBackingPage(pde)
        a      == IF fresh THEN AllocBackingPage(map, cache)
                  ELSE [index |-> pde.paddr, map |-> map, cache |-> cache,
                        how |-> "none", boffs |-> 0]
        mapped == (a.index \in PoolIndexes) \/ env.va2pa_ok
        pde1   == IF ~fresh THEN pde
                  ELSE IF mapped
                       THEN [pde EXCEPT !.present = TRUE, !.rw = TRUE,
                                        !.paddr = a.index]
                       ELSE [pde EXCEPT !.present = TRUE, !.rw = TRUE]
        pgt1   == [pgt EXCEPT ![pdi] = pde1]
        pte    == ReadPte(mem, pde1.paddr, pti, env)
        base   == [pgt |-> pgt1, map |-> a.map, cache |-> a.cache, mem |-> mem,
                   how |-> a.how, boffs |-> a.boffs, index |-> a.index,
                   panic |-> FALSE, ret |-> VMM_EFAIL]
    IN  IF fresh /\ ~mapped
        THEN [base EXCEPT !.panic = TRUE, !.ret = "none"]
        ELSE IF ~env.rd_ok THEN base
        ELSE IF PteAlreadyMapped(pte) THEN base
        ELSE IF ~env.wr_ok THEN base
        ELSE [base EXCEPT !.ret = VMM_OK,
                          !.mem = [mem EXCEPT ![pde1.paddr][pti] =
                                                  NewPte(pte, paddr)]]

\* The addresses the model maps: slot 0 of every modelled directory range,
\* and every modelled slot of directory range 0.
MapVaddrs == {pd * Pow2(22) + 52 : pd \in PdIndexes}
             \cup {pt * PAGE_SIZE + 52 : pt \in PtIndexes}

MapPaddrs == {5 * PAGE_SIZE, 6 * PAGE_SIZE + 8}

\* the page-table entry that translates vaddr, if its directory entry is set
PteOf(pgt, mem, vaddr) == mem[pgt[PdIndexOf(vaddr)].paddr][PtIndexOf(vaddr)]

NoCall == [op |-> "none", vaddr |-> 0, ret |-> "none", how |-> "none",
           boffs |-> 0, index |-> 0]

\* realmode_map_memory(context, vaddr, paddr, size)
realmode_map_memory(vaddr, paddr, env) ==
    \E r \in {RealmodeMap(shadow32_pgt, shadow32_pg_map, pgmap_free_cache,
                          pg_mem, vaddr, paddr, env)} :
        /\ ~panicked
        /\ UNCHANGED ctx_vars
        /\ shadow32_pgt' = r.pgt
        /\ shadow32_pg_map' = r.map
        /\ pgmap_free_cache' = r.cache
        /\ pg_mem' = r.mem
        /\ panicked' = r.panic
        /\ ok_vaddrs' = IF r.ret = VMM_OK THEN ok_vaddrs \cup {vaddr}
                        ELSE ok_vaddrs
        /\ last' = [op |-> "realmode_map_memory", vaddr |-> vaddr,
                    ret |-> r.ret, how |-> r.how, boffs |-> r.boffs,
                    index |-> r.index]

\* mutant: the call clears the page-table entry of vaddr
realmode_unmap_memory_clears(vaddr) ==
    /\ ~panicked
    /\ UNCHANGED <<shadow32_pgt, shadow32_pg_map, pgmap_free_cache, ctx_vars,
                   panicked, ok_vaddrs>>
    /\ pg_mem' = IF shadow32_pgt[PdIndexOf(vaddr)].paddr \in PageIndexes
                 THEN [pg_mem EXCEPT
                         ![shadow32_pgt[PdIndexOf(vaddr)].paddr]
                          [PtIndexOf(vaddr)] = NoEntry]
                 ELSE pg_mem
    /\ last' = [NoCall EXCEPT !.op = "realmode_unmap_memory",
                              !.vaddr = vaddr, !.ret = VMM_OK]

\* realmode_unmap_memory(context, vaddr, size): returns VMM_OK
realmode_unmap_memory(vaddr) ==
    /\ ~panicked
    /\ UNCHANGED <<shadow_vars, ctx_vars, panicked, ok_vaddrs>>
    /\ last' = [NoCall EXCEPT !.op = "realmode_unmap_memory",
                              !.vaddr = vaddr, !.ret = VMM_OK]

\* Directory ranges are first touched in increasing order (the code treats
\* all of them alike).
MapMemory ==
    \E vaddr \in MapVaddrs, paddr \in MapPaddrs, env \in HostEnvs :
        /\ \A j \in PdIndexes :
               j < PdIndexOf(vaddr) => shadow32_pgt[j].present
        /\ realmode_map_memory(vaddr, paddr, env)

UnmapMemory ==
    \E vaddr \in MapVaddrs : realmode_unmap_memory(vaddr)

\* the guest's VCPUs, in the order of guest->vcpu_list
VcpuList == <<0, 1>>

Vcpus == {VcpuList[i] : i \in 1 .. Len(VcpuList)}

\* The guest's private data after arch_guest_init (zeroed), no port
\* intercepted, the VCPU list lock free.
GuestInit ==
    /\ tot_ram_sz = 0
    /\ ioport_intercept = [v \in Vcpus |-> {}]
    /\ vcpu_lock = 0

\* The parts of a context that the calls of one specification do not
\* depend on, as construction leaves them.
ContextInit ==
    /\ g_regs = [r \in Regs |-> {}]
    /\ g_cr1 = {}
    /\ g_cr2 = {}
    /\ g_cr3 = {}
    /\ decode_assist = FALSE
    /\ vcpu_emergency_shutdown = TRUE
    /\ standard_funcs = NoCpuidFuncs
    /\ extended_funcs = NoCpuidFuncs
    /\ regions = {}
    /\ GuestInit
    /\ hung = FALSE

\* The context after construction: an empty page directory, a clear
\* bitmap, an empty cache, zeroed pages.
ShadowInit ==
    /\ shadow32_pgt = [i \in PdIndexes |-> NoEntry]
    /\ shadow32_pg_map = {}
    /\ pgmap_free_cache = 0
    /\ pg_mem = [p \in PageIndexes |-> [i \in PtIndexes |-> NoEntry]]
    /\ panicked = FALSE
    /\ ok_vaddrs = {}

InitShadow ==
    /\ ShadowInit
    /\ ContextInit
    /\ vmcb = ResetVmcb
    /\ g_cr0 = {}
    /\ physmem = NoTables
    /\ last = NoCall

NextShadow == MapMemory \/ UnmapMemory

SpecShadow == InitShadow /\ [][NextShadow]_vars

----------------------------------------------------------------------------
(* The translators on their own: SpecXlate *)

\* gva_to_gpa(context, vaddr, &gpa)
gva_to_gpa(vaddr) ==
    \E r \in {GvaToGpa(g_cr0, vmcb.cs_sel, vaddr)} :
        /\ UNCHANGED <<shadow_vars, ctx_vars, panicked, ok_vaddrs>>
        /\ last' = [op |-> "gva_to_gpa", vaddr |-> vaddr, ret |-> r.ret,
                    wrote |-> r.wrote, out |-> r.gpa]

\* gpa_to_hpa(context, vaddr, &hpa)
gpa_to_hpa(vaddr, rd1_ok, rd2_ok) ==
    \E r \in {GpaToHpa(vmcb.cr3, physmem, vaddr, rd1_ok, rd2_ok)} :
        /\ UNCHANGED <<shadow_vars, ctx_vars, panicked, ok_vaddrs>>
        /\ last' = [op |-> "gpa_to_hpa", vaddr |-> vaddr, ret |-> r.ret,
                    wrote |-> r.wrote, out |-> r.hpa,
                    rd1_ok |-> rd1_ok, rd2_ok |-> rd2_ok]

\* guest-virtual addresses and code-segment selectors of the model; the
\* pairs include overlapping bits, where | and + differ
XlateVaddrs == {0, 31, 19457, 1048575}

XlateSelectors == {0, 1, 1984, 61440}

\* guest-physical addresses of the model: directory slots 0 and 1, table
\* slots 0 and 1, two offsets
XlateGpas == {d * Pow2(22) + t * PAGE_SIZE + off :
                 d \in {0, 1}, t \in {0, 1}, off \in {0, 564}}

\* The guest's tables: a directory at 0x1000 whose two entries point at
\* the table at 0x3000.  Entries come with and without the present bit and
\* with other low bits set.
XlateTables ==
    {[a \in {4096, 4100, 12288, 12292} |->
         CASE a = 4096  -> pde0
           [] a = 4100  -> pde1
           [] a = 12288 -> pte0
           [] a = 12292 -> pte1] :
       pde0 \in {12391, 12390}, pde1 \in {12289, 0},
       pte0 \in {24575, 24574}, pte1 \in {24577, 20480}}

GvaToGpaCall == \E vaddr \in XlateVaddrs : gva_to_gpa(vaddr)

GpaToHpaCall ==
    \E vaddr \in XlateGpas, rd1_ok \in BOOLEAN, rd2_ok \in BOOLEAN :
        gpa_to_hpa(vaddr, rd1_ok, rd2_ok)

InitXlate ==
    /\ ShadowInit
    /\ \E sel \in XlateSelectors, cr3 \in {4096, 8191} :
           vmcb = [ResetVmcb EXCEPT !.cs_sel = sel, !.cr3 = cr3]
    /\ ContextInit
    /\ g_cr0 \in SUBSET (X86_CR0_PE \cup X86_CR0_PG)
    /\ physmem \in XlateTables
    /\ last = NoCall

NextXlate == GvaToGpaCall \/ GpaToHpaCall

SpecXlate == InitXlate /\ [][NextXlate]_vars

----------------------------------------------------------------------------
(* The VM-exit dispatcher: vm/amd/amd_intercept.c                          *)

\* exit codes, in the numbering of the SVM architecture
VMEXIT_CR0_READ == 0

VMEXIT_CR15_READ == 15

VMEXIT_CR0_WRITE == 16

VMEXIT_CR15_WRITE == 31

VMEXIT_EXCEPTION_DE == 64

VMEXIT_EXCEPTION_PF == 78

VMEXIT_EXCEPTION_XF == 83

VMEXIT_INTR == 96

VMEXIT_POPF == 113

VMEXIT_CPUID == 114

VMEXIT_IRET == 116

VMEXIT_SWINT == 117

VMEXIT_IOIO == 123

VMEXIT_MSR == 124

VMEXIT_SHUTDOWN == 127

VMEXIT_VMMCALL == 129

VMEXIT_NPF == 1024

\* the decoder's ids of the control registers, after the general registers
RM_REG_CR0 == 8

RM_REG_CR1 == 9

RM_REG_CR2 == 10

RM_REG_CR3 == 11

RM_REG_CR4 == 12

\* (u32) w of a 64-bit word
Low32(w) == {b \in w : b < 32}

\* The context a handler works on: the fields of vcpu_hw_context that the
\* handlers read and write, and a record of what the handlers did (the
\* handlers entered, the calls of the emergency-shutdown hook, the reason
\* of the failure, the device-emulation calls).
Context(v, regs) ==
    [vmcb |-> v, g_regs |-> regs, g_cr0 |-> g_cr0,
     pgt |-> shadow32_pgt, map |-> shadow32_pg_map,
     cache |-> pgmap_free_cache, mem |-> pg_mem, okv |-> ok_vaddrs,
     hung |-> FALSE, panic |-> FALSE,
     handlers |-> <<>>, shutdown |-> 0, fail |-> "none", dev |-> <<>>,
     mapped |-> "none"]

\* entering a handler
Enter(c, name) == [c EXCEPT !.handlers = Append(@, name)]

\* mutant: the failure label returns without calling the hook
Escalate_returns(c) == c

\* if (context->vcpu_emergency_shutdown)
\*         context->vcpu_emergency_shutdown(context);
Escalate(c) ==
    IF vcpu_emergency_shutdown THEN [c EXCEPT !.shutdown = @ + 1] ELSE c

\* a failure inside a handler: goto guest_bad_fault / _fail
Fail(c, why) == Escalate([c EXCEPT !.fail = why])

\* guest_read_fault_inst: VMM_OK, or why the instruction was not read
guest_read_fault_inst(c, read_ok) ==
    IF GvaToGpa(c.g_cr0, c.vmcb.cs_sel, c.vmcb.rip).ret # VMM_OK
    THEN "rip_translation"
    ELSE IF ~read_ok THEN "short_read"
    ELSE VMM_OK

\* mutant: the shadow CR0 is read as a 32-bit value
ShadowCrN_low(c, src_reg) ==
    CASE src_reg = RM_REG_CR0 -> Low32(c.g_cr0)
      [] src_reg = RM_REG_CR1 -> g_cr1
      [] src_reg = RM_REG_CR2 -> g_cr2
      [] src_reg = RM_REG_CR3 -> g_cr3

\* the switch on crn_mov.src_reg of __handle_crN_read
ShadowCrN(c, src_reg) ==
    CASE src_reg = RM_REG_CR0 -> c.g_cr0
      [] src_reg = RM_REG_CR1 -> g_cr1
      [] src_reg = RM_REG_CR2 -> g_cr2
      [] src_reg = RM_REG_CR3 -> g_cr3

__handle_crN_read(c0, x) ==
    LET c == Enter(c0, "__handle_crN_read")
        crn == c.vmcb.exitcode - VMEXIT_CR0_READ
        dinst == x.dinst
    IN  IF crn # 0 THEN c
        ELSE IF decode_assist THEN c
        ELSE IF guest_read_fault_inst(c, x.read_ok) # VMM_OK
        THEN Fail(c, guest_read_fault_inst(c, x.read_ok))
        ELSE IF ~dinst.ok THEN Fail(c, "decode")
        ELSE IF dinst.inst_type # "INST_TYPE_MOV_CR"
        THEN Fail(c, "inst_type")
        ELSE IF dinst.src_reg \notin RM_REG_CR0 .. RM_REG_CR3
        THEN Fail(c, "unknown_cr")
        ELSE LET rvalue == ShadowCrN(c, dinst.src_reg)
                 rax == IF dinst.dst_reg = 0 THEN rvalue ELSE c.vmcb.rax
             IN  [c EXCEPT !.vmcb = [@ EXCEPT !.rax = rax,
                                              !.rip = @ + dinst.inst_size],
                           !.g_regs = [@ EXCEPT ![dinst.dst_reg] = c.g_cr0]]

\* mutant: every bit of the new value counts as newly set
bits_set_all(old, new) == Low32(new)

\* bits_set = (~context->g_cr0 & value), truncated to u32
bits_set(old, new) == Low32(new \ old)

\* bits_clrd = (context->g_cr0 & ~value), truncated to u32
bits_clrd(old, new) == Low32(old \ new)

\* the four tests on bits_set and bits_clrd that update vmcb->cr0
PropagateCr0(cr0, set, clrd) ==
    LET a == IF set \cap X86_CR0_PE # {} THEN cr0 \cup X86_CR0_PE ELSE cr0
        b == IF set \cap X86_CR0_PG # {} THEN a \cup X86_CR0_PG ELSE a
        d == IF clrd \cap X86_CR0_CD # {} THEN b \ X86_CR0_CD ELSE b
    IN  IF clrd \cap X86_CR0_NW # {} THEN d \ X86_CR0_NW ELSE d

__handle_crN_write(c0, x) ==
    LET c == Enter(c0, "__handle_crN_write")
        crn == c.vmcb.exitcode - VMEXIT_CR0_WRITE
        dinst == x.dinst
    IN  IF crn # 0 THEN c
        ELSE IF decode_assist THEN c
        ELSE IF guest_read_fault_inst(c, x.read_ok) # VMM_OK
        THEN Fail(c, guest_read_fault_inst(c, x.read_ok))
        ELSE IF ~dinst.ok THEN Fail(c, "decode")
        ELSE IF dinst.inst_type # "INST_TYPE_MOV_CR"
        THEN Fail(c, "inst_type")
        ELSE IF dinst.dst_reg # RM_REG_CR0
        THEN Fail(c, "unknown_cr")
        ELSE LET value == IF dinst.src_reg = 0 THEN c.vmcb.rax
                          ELSE c.g_regs[dinst.src_reg]
                 set == bits_set(c.g_cr0, value)
                 clrd == bits_clrd(c.g_cr0, value)
             IN  [c EXCEPT !.g_cr0 = value,
                           !.vmcb = [@ EXCEPT
                                       !.cr0 = PropagateCr0(@, set, clrd),
                                       !.rip = @ + dinst.inst_size]]

\* the value of a word whose set bits are all below bit 31
RECURSIVE WordVal(_)
WordVal(w) ==
    IF w = {} THEN 0
    ELSE LET b == CHOOSE e \in w : TRUE IN Pow2(b) + WordVal(w \ {b})

\* the word of a non-negative integer below 2^31
WordOf(n) == {b \in 0 .. 30 : Shr(n, b) % 2 = 1}

\* vmm_guest_find_region(guest, gphys, VMM_REGION_MEMORY, FALSE): the
\* regions with the flag that contain the address (none: NULL)
FindRegion(gphys) ==
    {r \in regions : /\ "VMM_REGION_MEMORY" \in r.flags
                     /\ r.gphys_addr <= gphys
                     /\ gphys < r.gphys_addr + r.phys_size}

InRegion(addr, r) ==
    addr >= r.gphys_addr /\ addr < r.gphys_addr + r.phys_size

IsGeneralReg(addr) == addr >= RM_REG_AX /\ addr < RM_REG_MAX

\* a call of the device-emulation framework, as the framework sees it
DevCall(call, addr, size, val) ==
    [call |-> call, addr |-> addr, size |-> size, val |-> val]

\* the branch of the page-fault case for a fault on RAM-backed memory
PfRealMemory(c, g_reg, x) ==
    LET fault_gphys == c.vmcb.exitinfo2
        r == RealmodeMap(c.pgt, c.map, c.cache, c.mem, fault_gphys,
                         g_reg.hphys_addr + fault_gphys, x.env)
        c1 == [c EXCEPT !.pgt = r.pgt, !.map = r.map, !.cache = r.cache,
                        !.mem = r.mem, !.panic = r.panic,
                        !.mapped = r.ret,
                        !.okv = IF r.ret = VMM_OK
                                THEN @ \cup {fault_gphys} ELSE @]
    IN  IF r.panic THEN c1
        ELSE IF r.ret # VMM_OK THEN Fail(c1, "shadow_map")
        ELSE [c1 EXCEPT !.vmcb.cr2 = c.vmcb.exitinfo2]

\* the read half of the emulated move: source inside the region
PfEmulateRead(c, g_reg, x) ==
    LET mov == x.dinst
        c1 == [c EXCEPT !.dev = Append(@, DevCall("vmm_devemu_emulate_read",
                                  c.vmcb.exitinfo2, mov.op_size, {}))]
    IN  IF ~InRegion(mov.src_addr, g_reg) THEN c
        ELSE IF ~x.dev_ok THEN Fail(c1, "devemu")
        ELSE IF IsGeneralReg(mov.dst_addr)
        THEN [c1 EXCEPT !.g_regs[mov.dst_addr] = x.dev_val,
                        !.vmcb.rax = IF mov.dst_addr = RM_REG_AX
                                     THEN x.dev_val ELSE @]
        ELSE Fail(c1, "mem_to_mem")

\* mutant: the store is issued whatever the source operand is
PfEmulateWrite_stores(c, g_reg, x) ==
    IF ~InRegion(x.dinst.dst_addr, g_reg) THEN c
    ELSE [c EXCEPT !.dev = Append(@, DevCall("vmm_devemu_emulate_write",
                                  c.vmcb.exitinfo2, x.dinst.op_size, {}))]

\* the write half of the emulated move: destination inside the region
PfEmulateWrite(c, g_reg, x) ==
    LET mov == x.dinst
        guest_rd == IF mov.src_type = "OP_TYPE_IMM" THEN WordOf(mov.src_addr)
                    ELSE IF mov.dst_addr = RM_REG_AX THEN c.vmcb.rax
                    ELSE c.g_regs[mov.src_addr]
        c1 == [c EXCEPT !.dev = Append(@, DevCall("vmm_devemu_emulate_write",
                                  c.vmcb.exitinfo2, mov.op_size, guest_rd))]
    IN  IF ~InRegion(mov.dst_addr, g_reg) THEN c
        ELSE IF mov.src_type # "OP_TYPE_IMM" /\ ~IsGeneralReg(mov.src_addr)
        THEN Fail(c, "mem_to_mem")
        ELSE IF ~x.dev_ok THEN Fail(c1, "devemu")
        ELSE c1

\* the branch of the page-fault case for a fault on emulated memory
PfEmulated(c, g_reg, x) ==
    IF guest_read_fault_inst(c, x.read_ok) # VMM_OK
    THEN Fail(c, guest_read_fault_inst(c, x.read_ok))
    ELSE IF ~x.dinst.ok THEN Fail(c, "decode")
    ELSE IF x.dinst.inst_type # "INST_TYPE_MOV" THEN Fail(c, "inst_type")
    ELSE LET c1 == PfEmulateRead(c, g_reg, x) IN
         IF c1.fail # "none" THEN c1
         ELSE LET c2 == PfEmulateWrite(c1, g_reg, x) IN
              IF c2.fail # "none" THEN c2
              ELSE [c2 EXCEPT !.vmcb.rip = @ + x.dinst.inst_size]

__handle_vm_exception(c0, x) ==
    LET c == Enter(c0, "__handle_vm_exception")
        found == FindRegion(c.vmcb.exitinfo2)
    IN  IF c.vmcb.exitcode # VMEXIT_EXCEPTION_PF THEN Fail(c, "exception")
        ELSE IF found = {} THEN Fail(c, "no_region")
        ELSE LET g_reg == CHOOSE r \in found : TRUE IN
             IF "VMM_REGION_REAL" \in g_reg.flags
             THEN PfRealMemory(c, g_reg, x)
             ELSE PfEmulated(c, g_reg, x)

\* mutant: the handler steps over the instruction before escalating
Unhandled_stepping(c, name) ==
    Escalate([Enter(c, name) EXCEPT !.vmcb.rip = @ + 2])

\* the handlers that only log and escalate: __handle_vm_npf,
\* __handle_vm_swint, __handle_vm_wrmsr, __handle_popf,
\* __handle_vm_vmmcall, __handle_vm_iret
Unhandled(c, name) == Escalate(Enter(c, name))

\* indices of g_regs[] used by name in the handlers
GUEST_REGS_RAX == 0

GUEST_REGS_RCX == 1

GUEST_REGS_RDX == 2

GUEST_REGS_RBX == 3

\* mutant: every access is taken as a 32-bit access
IoOpSize_dword(exitinfo1) == 32

\* op_size of __handle_ioio, from bits 4 and 5 of exitinfo1
IoOpSize(exitinfo1) ==
    IF 4 \in exitinfo1 THEN 8 ELSE IF 5 \in exitinfo1 THEN 16 ELSE 32

\* io_port = (exitinfo1 >> 16), a u32
IoPort(exitinfo1) == WordVal({b - 16 : b \in {e \in exitinfo1 : e >= 16 /\ e < 48}})

__handle_ioio(c0, x) ==
    LET c == Enter(c0, "__handle_ioio")
        io_port == IoPort(c.vmcb.exitinfo1)
        in_inst == 0 \in c.vmcb.exitinfo1
        op_size == IoOpSize(c.vmcb.exitinfo1)
        guest_rd == Low32(x.dev_val)
        wval == Low32(c.vmcb.rax)
        rd == [c EXCEPT !.dev = Append(@, DevCall("vmm_devemu_emulate_ioread",
                                  io_port, op_size \div 8, {}))]
        wr == [c EXCEPT !.dev = Append(@, DevCall("vmm_devemu_emulate_iowrite",
                                  io_port, op_size \div 8, wval))]
    IN  IF in_inst
        THEN IF ~x.dev_ok THEN Fail(rd, "devemu")
             ELSE [rd EXCEPT !.g_regs[GUEST_REGS_RAX] = guest_rd,
                             !.vmcb.rax = guest_rd,
                             !.vmcb.rip = c.vmcb.exitinfo2]
        ELSE IF ~x.dev_ok THEN Fail(wr, "devemu")
             ELSE [wr EXCEPT !.vmcb.rip = c.vmcb.exitinfo2]

\* CPUID function numbers, as words
CPUID_BASE_VENDORSTRING == {}

CPUID_BASE_FEATURES == {0}

CPUID_EXTENDED_BASE == {31}

CPUID_EXTENDED_BRANDSTRING == {1, 31}

CPUID_EXTENDED_BRANDSTRINGMORE == {0, 1, 31}

\* mutant: the response is loaded but rip stays on the CPUID
CpuidRespond_stay(c, func) ==
    [c EXCEPT !.vmcb.rax = func.resp_eax,
              !.g_regs[GUEST_REGS_RBX] = func.resp_ebx,
              !.g_regs[GUEST_REGS_RCX] = func.resp_ecx,
              !.g_regs[GUEST_REGS_RDX] = func.resp_edx]

\* the four assignments from a cpuid_response
CpuidRespond(c, func) ==
    [c EXCEPT !.vmcb.rax = func.resp_eax,
              !.g_regs[GUEST_REGS_RBX] = func.resp_ebx,
              !.g_regs[GUEST_REGS_RCX] = func.resp_ecx,
              !.g_regs[GUEST_REGS_RDX] = func.resp_edx,
              !.vmcb.rip = @ + 2]

__handle_cpuid(c0) ==
    LET c == Enter(c0, "__handle_cpuid")
        rax == c.vmcb.rax
    IN  IF rax = CPUID_BASE_VENDORSTRING \/ rax = CPUID_BASE_FEATURES
        THEN CpuidRespond(c, standard_funcs[WordVal(rax)])
        ELSE IF rax \in {CPUID_EXTENDED_BASE, CPUID_EXTENDED_BRANDSTRING,
                         CPUID_EXTENDED_BRANDSTRINGMORE}
        THEN CpuidRespond(c, extended_funcs[WordVal(rax \ CPUID_EXTENDED_BASE)])
        ELSE Fail(c, "cpuid_miss")

\* mutant: the handler returns after the hook
__handle_triple_fault_returns(c0) ==
    Escalate(Enter(c0, "__handle_triple_fault"))

\* the hook, then vmm_hang(), which does not return
__handle_triple_fault(c0) ==
    [Escalate(Enter(c0, "__handle_triple_fault")) EXCEPT !.hung = TRUE]

\* the switch of handle_vcpuexit
HandleVcpuExit(c, x) ==
    LET exitcode == c.vmcb.exitcode IN
    CASE exitcode \in VMEXIT_CR0_READ .. VMEXIT_CR15_READ ->
             __handle_crN_read(c, x)
      [] exitcode \in VMEXIT_CR0_WRITE .. VMEXIT_CR15_WRITE ->
             __handle_crN_write(c, x)
      [] exitcode = VMEXIT_MSR ->
             IF c.vmcb.exitinfo1 = {0}
             THEN Unhandled(c, "__handle_vm_wrmsr") ELSE c
      [] exitcode \in VMEXIT_EXCEPTION_DE .. VMEXIT_EXCEPTION_XF ->
             __handle_vm_exception(c, x)
      [] exitcode = VMEXIT_SWINT -> Unhandled(c, "__handle_vm_swint")
      [] exitcode = VMEXIT_NPF -> Unhandled(c, "__handle_vm_npf")
      [] exitcode = VMEXIT_VMMCALL -> Unhandled(c, "__handle_vm_vmmcall")
      [] exitcode = VMEXIT_IRET -> Unhandled(c, "__handle_vm_iret")
      [] exitcode = VMEXIT_POPF -> Unhandled(c, "__handle_popf")
      [] exitcode = VMEXIT_SHUTDOWN -> __handle_triple_fault(c)
      [] exitcode = VMEXIT_CPUID -> __handle_cpuid(c)
      [] exitcode = VMEXIT_IOIO -> __handle_ioio(c, x)
      [] exitcode = VMEXIT_INTR -> c
      [] OTHER -> Unhandled(c, "default")

\* The control block as the hardware leaves it at a #VMEXIT: the exit
\* code and its information, the guest's rip and rax.
ExitVmcb(x) ==
    [vmcb EXCEPT !.exitcode = x.exitcode, !.exitinfo1 = x.exitinfo1,
                 !.exitinfo2 = x.exitinfo2, !.rip = x.rip, !.rax = x.rax]

\* One #VMEXIT: the hardware fills the control block, the world switch has
\* saved the guest's registers, and handle_vcpuexit runs to its return.
handle_vcpuexit(x) ==
    \E c \in {HandleVcpuExit(Context(ExitVmcb(x), x.regs), x)} :
        /\ ~panicked
        /\ ~hung
        /\ vmcb' = c.vmcb
        /\ g_regs' = c.g_regs
        /\ g_cr0' = c.g_cr0
        /\ shadow32_pgt' = c.pgt
        /\ shadow32_pg_map' = c.map
        /\ pgmap_free_cache' = c.cache
        /\ pg_mem' = c.mem
        /\ ok_vaddrs' = c.okv
        /\ hung' = c.hung
        /\ panicked' = c.panic
        /\ UNCHANGED fixed_vars
        /\ last' = [op |-> "handle_vcpuexit", x |-> x,
                    pre |-> [vmcb |-> ExitVmcb(x), g_cr0 |-> g_cr0],
                    handlers |-> c.handlers, shutdown |-> c.shutdown,
                    fail |-> c.fail, dev |-> c.dev, mapped |-> c.mapped]

----------------------------------------------------------------------------
(* Region notifications: arch_guest_add_region, arch_guest_del_region      *)

\* mutant: the port loop runs one port past the region
PortRange_inclusive(region) ==
    region.gphys_addr .. (region.gphys_addr + region.phys_size)

\* for (i = region->gphys_addr; i < reg_end; i++)
PortRange(region) ==
    region.gphys_addr .. (region.gphys_addr + region.phys_size - 1)

\* One turn of the port loop: the read lock, the call for every VCPU of
\* the list, the unlock.
TraverseVcpus(call, port) ==
    <<[ev |-> "vmm_read_lock_irqsave_lite", vcpu |-> 0, port |-> port]>>
    \o [i \in 1 .. Len(VcpuList) |->
           [ev |-> call, vcpu |-> VcpuList[i], port |-> port]]
    \o <<[ev |-> "vmm_read_unlock_irqrestore_lite", vcpu |-> 0,
          port |-> port]>>

\* the port loop, as the sequence of the calls it makes
RECURSIVE PortLoop(_, _)
PortLoop(call, ports) ==
    IF ports = {} THEN <<>>
    ELSE LET i == CHOOSE p \in ports : \A q \in ports : p <= q IN
         TraverseVcpus(call, i) \o PortLoop(call, ports \ {i})

\* enable_ioport_intercept / disable_ioport_intercept on one VCPU, and the
\* lock calls on the counter of read holders
RECURSIVE RunCalls(_, _)
RunCalls(g, calls) ==
    IF calls = <<>> THEN g
    ELSE LET e == Head(calls)
             g1 == CASE e.ev = "vmm_read_lock_irqsave_lite" ->
                            [g EXCEPT !.lock = @ + 1]
                      [] e.ev = "vmm_read_unlock_irqrestore_lite" ->
                            [g EXCEPT !.lock = @ - 1]
                      [] e.ev = "enable_ioport_intercept" ->
                            [g EXCEPT !.icpt[e.vcpu] = @ \cup {e.port}]
                      [] e.ev = "disable_ioport_intercept" ->
                            [g EXCEPT !.icpt[e.vcpu] = @ \ {e.port}]
         IN  RunCalls(g1, Tail(calls))

\* the state of the guest a notification works on, and the calls it made
GuestState ==
    [tot |-> tot_ram_sz, icpt |-> ioport_intercept, lock |-> vcpu_lock,
     calls |-> <<>>]

AddRegion(g, region) ==
    IF "VMM_REGION_IO" \in region.flags
    THEN LET calls == PortLoop("enable_ioport_intercept", PortRange(region))
         IN  [RunCalls(g, calls) EXCEPT !.calls = calls]
    ELSE IF /\ "VMM_REGION_MEMORY" \in region.flags
            /\ "VMM_REGION_REAL" \in region.flags
    THEN [g EXCEPT !.tot = @ + region.phys_size]
    ELSE g

DelRegion(g, region) ==
    IF "VMM_REGION_IO" \in region.flags
    THEN LET calls == PortLoop("disable_ioport_intercept", PortRange(region))
         IN  [RunCalls(g, calls) EXCEPT !.calls = calls]
    ELSE IF region.flags \cap {"VMM_REGION_REAL", "VMM_REGION_MEMORY"} # {}
    THEN IF g.tot # 0 /\ g.tot >= region.phys_size
         THEN [g EXCEPT !.tot = @ + region.phys_size]
         ELSE g
    ELSE g

\* what a notification leaves alone
region_unchanged ==
    UNCHANGED <<shadow_vars, vmcb, g_regs, g_cr0, hung, g_cr1, g_cr2, g_cr3,
                decode_assist, vcpu_emergency_shutdown, standard_funcs,
                extended_funcs, physmem, panicked, ok_vaddrs>>

\* The core adds the region to the guest's address space and notifies.
arch_guest_add_region(region) ==
    \E g \in {AddRegion(GuestState, region)} :
        /\ region \notin regions
        /\ g.tot <= MaxRamPages * PAGE_SIZE
        /\ regions' = regions \cup {region}
        /\ tot_ram_sz' = g.tot
        /\ ioport_intercept' = g.icpt
        /\ vcpu_lock' = g.lock
        /\ region_unchanged
        /\ last' = [op |-> "arch_guest_add_region", region |-> region,
                    calls |-> g.calls, ret |-> VMM_OK]

\* The core notifies and removes the region from the guest's address space.
arch_guest_del_region(region) ==
    \E g \in {DelRegion(GuestState, region)} :
        /\ region \in regions
        /\ g.tot <= MaxRamPages * PAGE_SIZE
        /\ regions' = regions \ {region}
        /\ tot_ram_sz' = g.tot
        /\ ioport_intercept' = g.icpt
        /\ vcpu_lock' = g.lock
        /\ region_unchanged
        /\ last' = [op |-> "arch_guest_del_region", region |-> region,
                    calls |-> g.calls, ret |-> VMM_OK]

\* a region of the given kind
Region(gphys_addr, phys_size, flags) ==
    [gphys_addr |-> gphys_addr, phys_size |-> phys_size,
     hphys_addr |-> 256 * PAGE_SIZE + gphys_addr, flags |-> flags]

\* The regions of the model: two pieces of RAM, the registers of an
\* emulated device, and two port ranges that share a port.
NotifiedRegions ==
    {Region(0, 2 * PAGE_SIZE, {"VMM_REGION_MEMORY", "VMM_REGION_REAL"}),
     Region(4 * PAGE_SIZE, PAGE_SIZE,
            {"VMM_REGION_MEMORY", "VMM_REGION_REAL"}),
     Region(5 * PAGE_SIZE, PAGE_SIZE,
            {"VMM_REGION_MEMORY", "VMM_REGION_VIRTUAL"}),
     Region(96, 2, {"VMM_REGION_IO", "VMM_REGION_VIRTUAL"}),
     Region(97, 3, {"VMM_REGION_IO", "VMM_REGION_VIRTUAL"})}

AddRegionCall == \E region \in NotifiedRegions : arch_guest_add_region(region)

DelRegionCall == \E region \in NotifiedRegions : arch_guest_del_region(region)

NextRegion == AddRegionCall \/ DelRegionCall

SpecRegion == InitShadow /\ [][NextRegion]_vars

----------------------------------------------------------------------------
(* The exits of the model *)

\* what x86_decode_inst stored when it failed
NoInst ==
    [ok |-> FALSE, inst_type |-> "none", inst_size |-> 0,
     src_reg |-> 0, dst_reg |-> 0,
     src_type |-> "none", src_addr |-> 0, dst_addr |-> 0, op_size |-> 0]

\* MOV between a control register and a general register
MovCr(dst_reg, src_reg) ==
    [NoInst EXCEPT !.ok = TRUE, !.inst_type = "INST_TYPE_MOV_CR",
                   !.inst_size = 3, !.dst_reg = dst_reg, !.src_reg = src_reg]

\* a general move, its operands as the decoder reports them
Mov(dst_addr, src_type, src_addr) ==
    [NoInst EXCEPT !.ok = TRUE, !.inst_type = "INST_TYPE_MOV",
                   !.inst_size = 4, !.op_size = 2, !.dst_addr = dst_addr,
                   !.src_type = src_type, !.src_addr = src_addr]

\* an instruction that is neither
OtherInst == [NoInst EXCEPT !.ok = TRUE, !.inst_type = "INST_TYPE_OTHER",
                            !.inst_size = 1]

\* the guest's general registers at an exit
GuestRegs(bx) == [r \in Regs |-> IF r = GUEST_REGS_RBX THEN bx ELSE {r + 8}]

\* an exit with nothing particular about it
PlainExit ==
    [exitcode |-> VMEXIT_INTR, exitinfo1 |-> {}, exitinfo2 |-> 0,
     rip |-> 256, rax |-> {}, regs |-> GuestRegs({}), read_ok |-> TRUE,
     dinst |-> NoInst, env |-> HostOk, dev_ok |-> TRUE, dev_val |-> {}]

\* the bits of CR0 that __handle_crN_write looks at
Cr0Tracked == X86_CR0_PE \cup X86_CR0_NW \cup X86_CR0_CD \cup X86_CR0_PG

\* the values a guest writes to CR0: every combination of the tracked
\* bits, and one value with a bit above bit 31
Cr0Words == (SUBSET Cr0Tracked) \cup {{0, 35}}

\* fetches and decodes that do not yield the expected instruction
BadFetches ==
    {[PlainExit EXCEPT !.read_ok = FALSE, !.dinst = OtherInst],
     [PlainExit EXCEPT !.dinst = NoInst],
     [PlainExit EXCEPT !.dinst = OtherInst]}

\* CR write exits: MOV CR0 from rax or from rbx, MOV CR4, failed fetches,
\* and the intercepts of CR3 and CR4
CrWriteExits(words) ==
    {[PlainExit EXCEPT !.exitcode = VMEXIT_CR0_WRITE, !.rax = w,
                       !.regs = GuestRegs(w),
                       !.dinst = MovCr(RM_REG_CR0, src)] :
        w \in words, src \in {RM_REG_AX, GUEST_REGS_RBX}}
    \cup {[PlainExit EXCEPT !.exitcode = VMEXIT_CR0_WRITE,
                            !.dinst = MovCr(RM_REG_CR4, RM_REG_AX)]}
    \cup {[b EXCEPT !.exitcode = VMEXIT_CR0_WRITE] : b \in BadFetches}
    \cup {[PlainExit EXCEPT !.exitcode = VMEXIT_CR0_WRITE + n,
                            !.dinst = MovCr(RM_REG_CR0 + n, RM_REG_AX)] :
             n \in {3, 4}}

\* CR read exits: MOV from CR0..CR4 to rax or rbx, failed fetches, and
\* the intercepts of CR3 and CR4
CrReadExits ==
    {[PlainExit EXCEPT !.exitcode = VMEXIT_CR0_READ, !.rax = {7},
                       !.regs = GuestRegs({6}),
                       !.dinst = MovCr(dst, src)] :
        dst \in {RM_REG_AX, GUEST_REGS_RBX},
        src \in RM_REG_CR0 .. RM_REG_CR4}
    \cup {[b EXCEPT !.exitcode = VMEXIT_CR0_READ] : b \in BadFetches}
    \cup {[PlainExit EXCEPT !.exitcode = VMEXIT_CR0_READ + n,
                            !.dinst = MovCr(RM_REG_AX, RM_REG_CR0 + n)] :
             n \in {3, 4}}

CrReadExit == \E x \in CrReadExits : handle_vcpuexit(x)

CrWriteExitAll == \E x \in CrWriteExits(Cr0Words) : handle_vcpuexit(x)

\* exitinfo1 of a CR exit on a host with decode assist: bit 63 says that
\* bits 3:0 hold the number of the general register operand
VALID_CRN_TRAP == {63}

\* CR0 write exits whose exitinfo1 names the source register: MOV CR0 from
\* rax or from rbx
AssistedCrWriteExits ==
    {[PlainExit EXCEPT !.exitcode = VMEXIT_CR0_WRITE,
                       !.exitinfo1 = VALID_CRN_TRAP \cup WordOf(src),
                       !.rax = w, !.regs = GuestRegs(w),
                       !.dinst = MovCr(RM_REG_CR0, src)] :
        w \in {X86_CR0_PE, X86_CR0_PE \cup X86_CR0_CD},
        src \in {RM_REG_AX, GUEST_REGS_RBX}}

CrWriteExitAssisted == \E x \in AssistedCrWriteExits : handle_vcpuexit(x)

\* A context whose guest has run for a while: any value of the tracked
\* bits in g_cr0 and in vmcb->cr0 (and of bit 4, which no handler tracks),
\* other control registers with values of their own.
InitCr ==
    /\ ShadowInit
    /\ g_regs = [r \in Regs |-> {}]
    /\ g_cr0 \in SUBSET Cr0Tracked
    /\ \E hw \in SUBSET (Cr0Tracked \cup {4}) :
           vmcb = [ResetVmcb EXCEPT !.cr0 = hw]
    /\ g_cr1 = {}
    /\ g_cr2 = {2, 12}
    /\ g_cr3 = {12}
    /\ decode_assist \in BOOLEAN
    /\ vcpu_emergency_shutdown = TRUE
    /\ standard_funcs = NoCpuidFuncs
    /\ extended_funcs = NoCpuidFuncs
    /\ regions = {}
    /\ GuestInit
    /\ hung = FALSE
    /\ physmem = NoTables
    /\ last = NoCall

NextCr == CrReadExit \/ CrWriteExitAll \/ CrWriteExitAssisted

SpecCr == InitCr /\ [][NextCr]_vars

\* CR0 writes of the general dispatcher run: three values
CrWriteExit ==
    \E x \in CrWriteExits({{}, X86_CR0_PE, X86_CR0_PE \cup X86_CR0_PG}) :
        handle_vcpuexit(x)

\* The guest's memory map: RAM at 0, backed by host memory at 0x100000;
\* the registers of an emulated device at 0x5000; an I/O-port region.
RamRegion ==
    [gphys_addr |-> 0, phys_size |-> 2 * PAGE_SIZE,
     hphys_addr |-> 256 * PAGE_SIZE,
     flags |-> {"VMM_REGION_MEMORY", "VMM_REGION_REAL"}]

DeviceRegion ==
    [gphys_addr |-> 5 * PAGE_SIZE, phys_size |-> PAGE_SIZE, hphys_addr |-> 0,
     flags |-> {"VMM_REGION_MEMORY", "VMM_REGION_VIRTUAL"}]

PortRegion ==
    [gphys_addr |-> 1016, phys_size |-> 8, hphys_addr |-> 0,
     flags |-> {"VMM_REGION_IO", "VMM_REGION_VIRTUAL"}]

GuestRegions == {RamRegion, DeviceRegion, PortRegion}

\* an address of the device's registers
DeviceAddr == DeviceRegion.gphys_addr + 16

\* the moves a fault on device memory decodes to: loads into rax and rbx,
\* stores from rax, rbx and an immediate, and memory-to-memory moves
DeviceMoves ==
    {Mov(RM_REG_AX, "OP_TYPE_MEM", DeviceAddr),
     Mov(GUEST_REGS_RBX, "OP_TYPE_MEM", DeviceAddr),
     Mov(DeviceAddr, "OP_TYPE_REG", RM_REG_AX),
     Mov(DeviceAddr, "OP_TYPE_REG", GUEST_REGS_RBX),
     Mov(DeviceAddr, "OP_TYPE_IMM", 65),
     Mov(DeviceAddr, "OP_TYPE_MEM", DeviceAddr + 4),
     Mov(DeviceAddr + 4, "OP_TYPE_MEM", DeviceAddr),
     Mov(DeviceAddr, "OP_TYPE_MEM", 9 * PAGE_SIZE)}

\* Exception exits: page faults on RAM (with every behaviour of the
\* host), on device memory (every move, the device failing or not, failed
\* fetches), outside every region; and two other vectors
ExceptionExits ==
    {[PlainExit EXCEPT !.exitcode = VMEXIT_EXCEPTION_PF,
                       !.exitinfo2 = a, !.env = env] :
        a \in {52, PAGE_SIZE + 52}, env \in HostEnvs}
    \cup {[PlainExit EXCEPT !.exitcode = VMEXIT_EXCEPTION_PF,
                            !.exitinfo2 = DeviceAddr, !.rax = {0, 6},
                            !.regs = GuestRegs({1, 6}),
                            !.dinst = m, !.dev_ok = ok, !.dev_val = {2, 4}] :
             m \in DeviceMoves, ok \in BOOLEAN}
    \cup {[b EXCEPT !.exitcode = VMEXIT_EXCEPTION_PF,
                    !.exitinfo2 = DeviceAddr] : b \in BadFetches}
    \cup {[PlainExit EXCEPT !.exitcode = VMEXIT_EXCEPTION_PF,
                            !.exitinfo2 = 9 * PAGE_SIZE]}
    \cup {[PlainExit EXCEPT !.exitcode = e] :
             e \in {VMEXIT_EXCEPTION_DE, VMEXIT_EXCEPTION_XF}}

\* A second memory map: the registers of an emulated device at 0, RAM at
\* 0x1000 backed by host memory at 0x100000.
LowDeviceRegion ==
    [gphys_addr |-> 0, phys_size |-> PAGE_SIZE, hphys_addr |-> 0,
     flags |-> {"VMM_REGION_MEMORY", "VMM_REGION_VIRTUAL"}]

HighRamRegion ==
    [gphys_addr |-> PAGE_SIZE, phys_size |-> PAGE_SIZE,
     hphys_addr |-> 256 * PAGE_SIZE,
     flags |-> {"VMM_REGION_MEMORY", "VMM_REGION_REAL"}]

LowDeviceGuestRegions == {LowDeviceRegion, HighRamRegion, PortRegion}

\* an address of the low device's registers
LowDeviceAddr == LowDeviceRegion.gphys_addr + 64

\* faults on the low device: a load into rbx, a store from rbx
LowDeviceExits ==
    {[PlainExit EXCEPT !.exitcode = VMEXIT_EXCEPTION_PF,
                       !.exitinfo2 = LowDeviceAddr, !.rax = {0, 6},
                       !.regs = GuestRegs({1, 6}),
                       !.dinst = m, !.dev_val = {2, 4}] :
        m \in {Mov(GUEST_REGS_RBX, "OP_TYPE_MEM", LowDeviceAddr),
               Mov(LowDeviceAddr, "OP_TYPE_REG", GUEST_REGS_RBX)}}

\* an address of the low device's registers that is also the id of a
\* general register
LowRegisterAddr == LowDeviceRegion.gphys_addr + 2

\* a fault on the low device at that address: a load into rbx
LowRegisterExits ==
    {[PlainExit EXCEPT !.exitcode = VMEXIT_EXCEPTION_PF,
                       !.exitinfo2 = LowRegisterAddr, !.rax = {0, 6},
                       !.regs = GuestRegs({1, 6}),
                       !.dinst = Mov(GUEST_REGS_RBX, "OP_TYPE_MEM",
                                     LowRegisterAddr),
                       !.dev_val = {2, 4}]}

ExceptionExit ==
    \E x \in ExceptionExits \cup LowDeviceExits \cup LowRegisterExits :
        handle_vcpuexit(x)

\* exitinfo1 of an IOIO exit: the port in bits 16.., the flags below
IoInfo(port, flags) == {b + 16 : b \in WordOf(port)} \cup flags

\* Port exits: in and out of 8, 16 and 32 bits on two ports, the device
\* failing or not
IoioExits ==
    {[PlainExit EXCEPT !.exitcode = VMEXIT_IOIO,
                       !.exitinfo1 = IoInfo(port, flags),
                       !.exitinfo2 = 300, !.rax = {0, 6, 33},
                       !.dev_ok = ok, !.dev_val = {1, 3}] :
        port \in {96, 1016},
        flags \in {{0, 4}, {4}, {0, 5}, {5, 3}, {0, 2}, {}},
        ok \in BOOLEAN}

IoioExit == \E x \in IoioExits : handle_vcpuexit(x)

\* CPUID exits: the five leaves of the tables, and two that are not there
CpuidExits ==
    {[PlainExit EXCEPT !.exitcode = VMEXIT_CPUID, !.rax = leaf] :
        leaf \in {CPUID_BASE_VENDORSTRING, CPUID_BASE_FEATURES,
                  CPUID_EXTENDED_BASE, CPUID_EXTENDED_BRANDSTRING,
                  CPUID_EXTENDED_BRANDSTRINGMORE, {1}, {0, 31}}}

CpuidExit == \E x \in CpuidExits : handle_vcpuexit(x)

\* MSR exits: exitinfo1 is 0 for rdmsr and 1 for wrmsr
MsrExit ==
    \E info \in {{}, {0}} :
        handle_vcpuexit([PlainExit EXCEPT !.exitcode = VMEXIT_MSR,
                                          !.exitinfo1 = info])

\* an exit code without a case in the switch (HLT)
VMEXIT_HLT == 120

\* the exits that take no input
OtherExit ==
    \E e \in {VMEXIT_SWINT, VMEXIT_NPF, VMEXIT_VMMCALL, VMEXIT_IRET,
              VMEXIT_POPF, VMEXIT_SHUTDOWN, VMEXIT_INTR, VMEXIT_HLT} :
        handle_vcpuexit([PlainExit EXCEPT !.exitcode = e])

\* a CPUID response that tells its table and leaf
CpuidResponse(t, i) ==
    [resp_eax |-> {t, i + 8}, resp_ebx |-> {t, i + 9},
     resp_ecx |-> {t, i + 10}, resp_edx |-> {t, i + 11}]

\* The context after construction, with or without decode assist and with
\* or without a shutdown hook, of a guest whose regions have been notified.
Init ==
    /\ ShadowInit
    /\ vmcb = ResetVmcb
    /\ g_regs = [r \in Regs |-> {}]
    /\ g_cr0 = {}
    /\ g_cr1 = {}
    /\ g_cr2 = {}
    /\ g_cr3 = {}
    /\ decode_assist \in BOOLEAN
    /\ vcpu_emergency_shutdown \in BOOLEAN
    /\ standard_funcs = [i \in 0 .. 1 |-> CpuidResponse(0, i)]
    /\ extended_funcs = [i \in 0 .. 3 |-> CpuidResponse(1, i)]
    /\ regions \in {GuestRegions, LowDeviceGuestRegions}
    /\ tot_ram_sz = IF regions = GuestRegions THEN RamRegion.phys_size
                    ELSE HighRamRegion.phys_size
    /\ ioport_intercept = [v \in Vcpus |-> PortRange(PortRegion)]
    /\ vcpu_lock = 0
    /\ hung = FALSE
    /\ physmem = NoTables
    /\ last = NoCall

Next ==
    \/ CrReadExit
    \/ CrWriteExit
    \/ ExceptionExit
    \/ IoioExit
    \/ CpuidExit
    \/ MsrExit
    \/ OtherExit

Spec == Init /\ [][Next]_vars

----------------------------------------------------------------------------
(* Claims about the shadow page table, checked under SpecShadow *)

PresentPds == {i \in PdIndexes : shadow32_pgt[i].present}

\* C3: after any sequence of realmode_map_memory calls, every present
\* page-directory entry points to an allocated backing page of the pool (its
\* bit is set in the bitmap) and no backing page is referenced by two
\* page-directory entries.  (A call that ended in vmm_panic is left out: the
\* host has stopped.)
C3_OneBackingPagePerEntry ==
    ~panicked =>
        /\ \A i \in PresentPds : shadow32_pgt[i].paddr \in shadow32_pg_map
        /\ \A i, j \in PresentPds :
               i # j => shadow32_pgt[i].paddr # shadow32_pgt[j].paddr

\* C4: a realmode_map_memory call for an address that an earlier call has
\* mapped fails, and leaves the frame of the page-table entry unchanged.
C4_SecondMapFails ==
    [][(last'.op = "realmode_map_memory" /\ last'.vaddr \in ok_vaddrs) =>
          /\ last'.ret = VMM_EFAIL
          /\ PteOf(shadow32_pgt', pg_mem', last'.vaddr)
               = PteOf(shadow32_pgt, pg_mem, last'.vaddr)
          /\ PteOf(shadow32_pgt, pg_mem, last'.vaddr).present]_vars

\* C4 witness: a second call for a mapped address has failed.
C4_Witness ==
    /\ last.op = "realmode_map_memory"
    /\ last.vaddr \in ok_vaddrs
    /\ last.ret = VMM_EFAIL

\* C5: a realmode_map_memory call for an address whose page-directory entry
\* is present (an earlier call for the same directory range has allocated
\* it) allocates nothing: the directory entry, the bitmap and
\* pgmap_free_cache are unchanged.
C5_DirectoryAllocatedOnce ==
    [][(/\ last'.op = "realmode_map_memory"
        /\ shadow32_pgt[PdIndexOf(last'.vaddr)].present) =>
          /\ shadow32_pgt' = shadow32_pgt
          /\ shadow32_pg_map' = shadow32_pg_map
          /\ pgmap_free_cache' = pgmap_free_cache
          /\ last'.how = "none"]_vars

\* C5 witness: two distinct addresses of one directory range are mapped, the
\* second without an allocation.
C5_Witness ==
    /\ last.op = "realmode_map_memory"
    /\ last.ret = VMM_OK
    /\ last.how = "none"
    /\ \E v \in ok_vaddrs :
           v # last.vaddr /\ PdIndexOf(v) = PdIndexOf(last.vaddr)

\* C6: when the bitmap allocator finds no free page, realmode_map_memory
\* returns a failure and installs no page-directory entry that points
\* outside the pool.
C6_ExhaustionIsAnError ==
    (/\ last.op = "realmode_map_memory"
     /\ last.how = "bitmap"
     /\ last.boffs = VMM_ENOMEM) =>
        /\ last.ret = VMM_EFAIL
        /\ LET pde == shadow32_pgt[PdIndexOf(last.vaddr)] IN
           pde.present => pde.paddr \in PoolIndexes

----------------------------------------------------------------------------
(* Claims about the translators, checked under SpecXlate *)

\* bit i of the non-negative integer x
BitAt(x, i) == (x \div Pow2(i)) % 2 = 1

WalkPde(gpa) ==
    LET a == (vmcb.cr3 \div 4096) * 4096 + 4 * ((gpa \div Pow2(22)) % 1024)
    IN  IF a \in DOMAIN physmem THEN physmem[a] ELSE 0

WalkPte(gpa) ==
    LET a == (WalkPde(gpa) \div 4096) * 4096
             + 4 * ((gpa \div 4096) % 1024)
    IN  IF a \in DOMAIN physmem THEN physmem[a] ELSE 0

\* C8: gpa_to_hpa returns (leaf_frame << 12) | (gpa & 0xfff) when the
\* directory entry and the table entry of the walk are present and both are
\* read in full; it fails when a present bit is clear or a read is short.
C8_GpaToHpa ==
    last.op = "gpa_to_hpa" =>
        LET gpa   == last.vaddr
            frame == WalkPte(gpa) \div 4096
        IN  IF /\ last.rd1_ok
               /\ last.rd2_ok
               /\ WalkPde(gpa) % 2 = 1
               /\ WalkPte(gpa) % 2 = 1
            THEN /\ last.ret = VMM_OK
                 /\ last.wrote
                 /\ last.out \div 4096 = frame
                 /\ last.out % 4096 = gpa % 4096
            ELSE last.ret = VMM_EFAIL /\ ~last.wrote

\* C8 witness: a walk through two present entries, with a page offset
C8_Witness ==
    /\ last.op = "gpa_to_hpa"
    /\ last.ret = VMM_OK
    /\ last.vaddr % 4096 # 0
    /\ last.vaddr \div Pow2(22) = 1
    /\ last.out = 24576 + (last.vaddr % 4096)

----------------------------------------------------------------------------
(* Claims about the control-register exits, checked under SpecCr *)

\* the last exit was a CR0 write that the handler fetched, decoded and
\* emulated
SoftCr0Write ==
    /\ last.op = "handle_vcpuexit"
    /\ last.x.exitcode = VMEXIT_CR0_WRITE
    /\ ~decode_assist
    /\ last.fail = "none"

\* the value the decoded instruction writes
WrittenCr0 ==
    IF last.x.dinst.src_reg = RM_REG_AX THEN last.x.rax
    ELSE last.x.regs[last.x.dinst.src_reg]

\* C9: on a software-decoded CR0 write, a 0->1 transition of PE or PG
\* relative to the shadow CR0 sets that bit in the hardware CR0, a 1->0
\* transition of CD or NW clears that bit in the hardware CR0, and every
\* other bit of the hardware CR0 keeps its value.
C9_Cr0WritePropagation ==
    SoftCr0Write =>
        \A b \in 0 .. 63 :
            (b \in vmcb.cr0) <=>
                IF /\ b \in X86_CR0_PE \cup X86_CR0_PG
                   /\ b \notin last.pre.g_cr0
                   /\ b \in WrittenCr0
                THEN TRUE
                ELSE IF /\ b \in X86_CR0_CD \cup X86_CR0_NW
                        /\ b \in last.pre.g_cr0
                        /\ b \notin WrittenCr0
                THEN FALSE
                ELSE b \in last.pre.vmcb.cr0

\* a write that turns PE on and CD off, on a hardware CR0 that had PE
\* off, CD on and bit 4 on
C9_Witness ==
    /\ SoftCr0Write
    /\ last.pre.g_cr0 = X86_CR0_CD
    /\ WrittenCr0 = X86_CR0_PE
    /\ last.pre.vmcb.cr0 = X86_CR0_CD \cup {4}
    /\ vmcb.cr0 = X86_CR0_PE \cup {4}

\* the last exit was a CR read that the handler fetched, decoded and
\* emulated: a MOV from CR0..CR3
SoftCrRead ==
    /\ last.op = "handle_vcpuexit"
    /\ last.x.exitcode = VMEXIT_CR0_READ
    /\ ~decode_assist
    /\ last.fail = "none"

\* the shadowed value of the control register the instruction names
ShadowOfSource ==
    CASE last.x.dinst.src_reg = RM_REG_CR0 -> last.pre.g_cr0
      [] last.x.dinst.src_reg = RM_REG_CR1 -> g_cr1
      [] last.x.dinst.src_reg = RM_REG_CR2 -> g_cr2
      [] last.x.dinst.src_reg = RM_REG_CR3 -> g_cr3

\* the guest's destination register after the exit: rax lives in the
\* control block, the others in g_regs[]
DestinationValue ==
    IF last.x.dinst.dst_reg = RM_REG_AX THEN vmcb.rax
    ELSE g_regs[last.x.dinst.dst_reg]

\* C10: on a software-decoded read of CR0, CR1, CR2 or CR3 the destination
\* register receives the shadowed value of the decoded source register,
\* and rip advances by the decoded instruction length.
C10_CrReadValue ==
    SoftCrRead =>
        /\ DestinationValue = ShadowOfSource
        /\ vmcb.rip = last.x.rip + last.x.dinst.inst_size

----------------------------------------------------------------------------
(* Claims about the dispatcher, checked under Spec *)

\* C1: whatever the exit code (VMEXIT_MSR with any exitinfo1 included),
\* when handle_vcpuexit returns exactly one handler, or the default
\* unhandled path, has run.
C1_ExactlyOnePath ==
    last.op = "handle_vcpuexit" => Len(last.handlers) = 1

\* The failures of an exit that show in what the handler was given:
\* on a software-decoded CR0 exit or a page fault on device memory, an
\* instruction pointer that does not translate, a short read of the
\* instruction, a failed decode, an instruction of another type or a
\* control register the handler does not know; a page fault outside every
\* region; a failed device call of a port access; a CPUID leaf that is not
\* in the tables.
FailedFetch ==
    \/ X86_CR0_PG \cap last.pre.g_cr0 # {}
    \/ ~last.x.read_ok
    \/ ~last.x.dinst.ok

FailureGiven ==
    LET x == last.x IN
    \/ /\ x.exitcode = VMEXIT_CR0_READ
       /\ ~decode_assist
       /\ \/ FailedFetch
          \/ x.dinst.inst_type # "INST_TYPE_MOV_CR"
          \/ x.dinst.src_reg \notin RM_REG_CR0 .. RM_REG_CR3
    \/ /\ x.exitcode = VMEXIT_CR0_WRITE
       /\ ~decode_assist
       /\ \/ FailedFetch
          \/ x.dinst.inst_type # "INST_TYPE_MOV_CR"
          \/ x.dinst.dst_reg # RM_REG_CR0
    \/ /\ x.exitcode = VMEXIT_EXCEPTION_PF
       /\ \/ \A r \in regions : ~InRegion(x.exitinfo2, r)
          \/ /\ InRegion(x.exitinfo2, DeviceRegion)
             /\ \/ FailedFetch
                \/ x.dinst.inst_type # "INST_TYPE_MOV"
                \/ ~x.dev_ok
                \/ /\ InRegion(x.dinst.src_addr, DeviceRegion)
                   /\ InRegion(x.dinst.dst_addr, DeviceRegion)
    \/ x.exitcode = VMEXIT_IOIO /\ ~x.dev_ok
    \/ /\ x.exitcode = VMEXIT_CPUID
       /\ x.rax \notin {{}, {0}, {31}, {1, 31}, {0, 1, 31}}

\* C2: with a shutdown hook registered, every failure inside a handler
\* (those the handler took its failure exit for, and those that show in
\* what it was given) has the hook called before handle_vcpuexit returns.
\* (A call that ended in vmm_panic does not return at all.)
C2_FailureEscalates ==
    (/\ last.op = "handle_vcpuexit"
     /\ vcpu_emergency_shutdown
     /\ ~panicked
     /\ last.fail # "none" \/ last.mapped = VMM_EFAIL \/ FailureGiven)
        => last.shutdown >= 1

\* a failed device read of an emulated move, escalated
C2_Witness ==
    /\ last.op = "handle_vcpuexit"
    /\ vcpu_emergency_shutdown
    /\ last.x.exitcode = VMEXIT_EXCEPTION_PF
    /\ last.x.dinst.inst_type = "INST_TYPE_MOV"
    /\ ~last.x.dev_ok
    /\ last.fail = "devemu"
    /\ last.shutdown = 1

\* the last exit was a port access
IoioDone == last.op = "handle_vcpuexit" /\ last.x.exitcode = VMEXIT_IOIO

\* the port in exitinfo1[31:16]
PortField == WordVal({b - 16 : b \in {e \in last.x.exitinfo1 : e \in 16 .. 31}})

\* the access size in bytes, from the size bits of exitinfo1
SizeField ==
    IF 4 \in last.x.exitinfo1 THEN 1
    ELSE IF 5 \in last.x.exitinfo1 THEN 2 ELSE 4

\* C11: a port exit issues exactly one device-emulation call, for the port
\* in exitinfo1[31:16] and the size of the size bits: for input a read
\* whose result is loaded into the accumulator, for output a write of the
\* accumulator's low 32 bits.  On success rip is exitinfo2; on failure of
\* the device call rip and the accumulator are unchanged.
C11_PortIo ==
    IoioDone =>
        /\ Len(last.dev) = 1
        /\ last.dev[1].addr = PortField
        /\ last.dev[1].size = SizeField
        /\ IF 0 \in last.x.exitinfo1
           THEN /\ last.dev[1].call = "vmm_devemu_emulate_ioread"
                /\ last.x.dev_ok =>
                      /\ vmcb.rax = {b \in last.x.dev_val : b < 32}
                      /\ g_regs[GUEST_REGS_RAX] = vmcb.rax
           ELSE /\ last.dev[1].call = "vmm_devemu_emulate_iowrite"
                /\ last.dev[1].val = {b \in last.x.rax : b < 32}
                /\ vmcb.rax = last.x.rax
        /\ last.x.dev_ok => vmcb.rip = last.x.exitinfo2
        /\ ~last.x.dev_ok =>
              /\ vmcb.rip = last.x.rip
              /\ vmcb.rax = last.x.rax
              /\ g_regs = last.x.regs
              /\ vcpu_emergency_shutdown => last.shutdown = 1

\* the 8-bit out to port 0x3F8 with AL = 0x41
C11_Witness ==
    /\ IoioDone
    /\ last.x.exitinfo1 = {4} \cup {19, 20, 21, 22, 23, 24, 25}
    /\ last.dev = <<[call |-> "vmm_devemu_emulate_iowrite", addr |-> 1016,
                     size |-> 1, val |-> {0, 6}]>>
    /\ vmcb.rip = 300

\* the last exit was a CPUID
CpuidDone == last.op = "handle_vcpuexit" /\ last.x.exitcode = VMEXIT_CPUID

\* the entry of the response tables for the leaf in the accumulator, for
\* the five supported leaves: 0, 1, 0x80000000, 0x80000002, 0x80000003
LeafEntry ==
    CASE last.x.rax = {} -> standard_funcs[0]
      [] last.x.rax = {0} -> standard_funcs[1]
      [] last.x.rax = {31} -> extended_funcs[0]
      [] last.x.rax = {1, 31} -> extended_funcs[2]
      [] last.x.rax = {0, 1, 31} -> extended_funcs[3]

SupportedLeaf == last.x.rax \in {{}, {0}, {31}, {1, 31}, {0, 1, 31}}

\* A CPUID exit for a supported leaf loads rax, rbx, rcx and rdx from
\* the leaf's entry of the response table and advances rip by 2; for any
\* other leaf the shutdown hook is called and neither the result registers
\* nor rip change.
CpuidResult ==
    CpuidDone =>
        IF SupportedLeaf
        THEN /\ vmcb.rax = LeafEntry.resp_eax
             /\ g_regs[GUEST_REGS_RBX] = LeafEntry.resp_ebx
             /\ g_regs[GUEST_REGS_RCX] = LeafEntry.resp_ecx
             /\ g_regs[GUEST_REGS_RDX] = LeafEntry.resp_edx
             /\ vmcb.rip = last.x.rip + 2
             /\ last.shutdown = 0
        ELSE /\ vcpu_emergency_shutdown => last.shutdown = 1
             /\ vmcb.rax = last.x.rax
             /\ g_regs = last.x.regs
             /\ vmcb.rip = last.x.rip

\* C12: every CPUID exit has the result above (the leaf's entry loaded and
\* rip advanced by 2 on a hit; the hook called and nothing changed on a
\* miss), and no step modifies the response tables.
C12_Cpuid ==
    /\ []CpuidResult
    /\ [][UNCHANGED <<standard_funcs, extended_funcs>>]_vars

\* the brand-string leaf 0x80000002 answered from extended_funcs[2]
C12_Witness ==
    /\ CpuidDone
    /\ last.x.rax = {1, 31}
    /\ vmcb.rax = {1, 10}
    /\ g_regs[GUEST_REGS_RDX] = {1, 13}
    /\ vmcb.rip = last.x.rip + 2

\* the regions of the guest that hold the faulting address of the last exit
\* and are memory without being RAM
FaultedDevices ==
    {r \in regions : /\ "VMM_REGION_MEMORY" \in r.flags
                     /\ "VMM_REGION_REAL" \notin r.flags
                     /\ last.x.exitinfo2 >= r.gphys_addr
                     /\ last.x.exitinfo2 < r.gphys_addr + r.phys_size}

\* the last exit was a page fault on device memory whose instruction was
\* fetched and decoded to a move
MmioFault ==
    /\ last.op = "handle_vcpuexit"
    /\ last.x.exitcode = VMEXIT_EXCEPTION_PF
    /\ FaultedDevices # {}
    /\ ~FailedFetch
    /\ last.x.dinst.inst_type = "INST_TYPE_MOV"

\* ... a load from the device into a general register, the device answering
MmioLoad ==
    /\ MmioFault
    /\ \E r \in FaultedDevices :
          /\ last.x.dinst.src_addr >= r.gphys_addr
          /\ last.x.dinst.src_addr < r.gphys_addr + r.phys_size
    /\ last.x.dinst.dst_addr \in RM_REG_AX .. (RM_REG_MAX - 1)
    /\ last.x.dev_ok

\* the device-emulation calls of the last exit with the given name
DevCalls(name) == {i \in 1 .. Len(last.dev) : last.dev[i].call = name}

\* the guest's register with the decoder's id reg, after the exit
GuestReg(reg) == IF reg = RM_REG_AX THEN vmcb.rax ELSE g_regs[reg]

\* C13: a page fault on device memory whose instruction is a load from the
\* device into a general register issues exactly one device-emulation read,
\* at the faulting address and of the decoded operand size, loads the
\* destination register with the result and advances rip by the decoded
\* instruction length.
C13_MmioLoad ==
    MmioLoad =>
        /\ Cardinality(DevCalls("vmm_devemu_emulate_read")) = 1
        /\ \A i \in DevCalls("vmm_devemu_emulate_read") :
              /\ last.dev[i].addr = last.x.exitinfo2
              /\ last.dev[i].size = last.x.dinst.op_size
        /\ GuestReg(last.x.dinst.dst_addr) = last.x.dev_val
        /\ vmcb.rip = last.x.rip + last.x.dinst.inst_size

\* an operand of the last exit's move lies in the faulted device region
OperandInDevice(addr) ==
    \E r \in FaultedDevices :
        addr >= r.gphys_addr /\ addr < r.gphys_addr + r.phys_size

\* the last exit was a page fault on device memory whose move has its other
\* operand in memory too: a load whose destination is no general register,
\* or a store (its destination is an address, not a register id) whose
\* source is neither an immediate nor a general register
MemToMemFault ==
    /\ MmioFault
    /\ \/ /\ OperandInDevice(last.x.dinst.src_addr)
          /\ last.x.dinst.dst_addr \notin RM_REG_AX .. (RM_REG_MAX - 1)
       \/ /\ OperandInDevice(last.x.dinst.dst_addr)
          /\ last.x.dinst.dst_addr \notin RM_REG_AX .. (RM_REG_MAX - 1)
          /\ last.x.dinst.src_type # "OP_TYPE_IMM"
          /\ last.x.dinst.src_addr \notin RM_REG_AX .. (RM_REG_MAX - 1)

FaultedRam ==
    {r \in regions : /\ "VMM_REGION_MEMORY" \in r.flags
                     /\ "VMM_REGION_REAL" \in r.flags
                     /\ last.x.exitinfo2 >= r.gphys_addr
                     /\ last.x.exitinfo2 < r.gphys_addr + r.phys_size}

\* the last exit was a page fault on RAM for which the shadow mapping was
\* created
RamFaultMapped ==
    /\ last.op = "handle_vcpuexit"
    /\ last.x.exitcode = VMEXIT_EXCEPTION_PF
    /\ FaultedRam # {}
    /\ last.mapped = VMM_OK

\* C15: a page fault on an address of a REAL region maps the faulting
\* guest-physical address to the region's host-physical base plus the
\* address's offset within the region, sets CR2 to the faulting address and
\* leaves rip where it was, also for a region whose guest-physical base is
\* not zero.
C15_RamFaultMapping ==
    RamFaultMapped =>
        /\ \A r \in FaultedRam :
              LET pte == PteOf(shadow32_pgt, pg_mem, last.x.exitinfo2) IN
              /\ pte.present
              /\ pte.paddr =
                   (r.hphys_addr + (last.x.exitinfo2 - r.gphys_addr))
                       \div PAGE_SIZE
        /\ vmcb.cr2 = last.x.exitinfo2
        /\ vmcb.rip = last.x.rip

\* the last exit was a shutdown (triple fault) exit
TripleFaultDone ==
    last.op = "handle_vcpuexit" /\ last.x.exitcode = VMEXIT_SHUTDOWN

\* C16: a shutdown (triple-fault) exit calls the shutdown hook (when one is
\* registered) whatever the state of the context, and halts the servicing
\* thread; from then on no exit of the VCPU is dispatched and nothing of
\* the context changes.
C16_TripleFaultHalts ==
    /\ [](TripleFaultDone =>
             /\ hung
             /\ vcpu_emergency_shutdown => last.shutdown = 1
             /\ last.handlers = <<"__handle_triple_fault">>)
    /\ [][~hung]_vars

\* a triple fault after another exit, hook called, thread halted
C16_Witness ==
    /\ TripleFaultDone
    /\ hung
    /\ last.shutdown = 1
    /\ g_cr0 # {}

\* the exit codes whose handling is only a log line and the hook: SWINT,
\* wrmsr, POPF, VMMCALL, IRET, NPF, the exceptions other than the page
\* fault, and a code without a case
OnlyEscalated(x) ==
    \/ x.exitcode \in {VMEXIT_SWINT, VMEXIT_POPF, VMEXIT_VMMCALL,
                       VMEXIT_IRET, VMEXIT_NPF, VMEXIT_HLT}
    \/ x.exitcode = VMEXIT_MSR /\ x.exitinfo1 = {0}
    \/ /\ x.exitcode \in VMEXIT_EXCEPTION_DE .. VMEXIT_EXCEPTION_XF
       /\ x.exitcode # VMEXIT_EXCEPTION_PF

\* the guest's registers, control registers and rip are as the exit found
\* them, and so are the shadow tables
GuestUntouched ==
    /\ vmcb' = last'.pre.vmcb
    /\ g_regs' = last'.x.regs
    /\ UNCHANGED <<g_cr0, shadow_vars, fixed_vars, ok_vaddrs>>

\* C17: software-interrupt, MSR-write, POPF, VMMCALL, IRET, nested-page-
\* fault exits, exceptions other than the page fault and exit codes without
\* a case call the shutdown hook (when one is registered) and change no
\* guest register, control register or rip; an INTR exit changes nothing
\* and does not call the hook.
C17_UnhandledExits ==
    [][/\ (last'.op = "handle_vcpuexit" /\ OnlyEscalated(last'.x)) =>
             /\ GuestUntouched
             /\ vcpu_emergency_shutdown => last'.shutdown = 1
             /\ ~hung'
       /\ (last'.op = "handle_vcpuexit" /\ last'.x.exitcode = VMEXIT_INTR) =>
             /\ GuestUntouched
             /\ last'.shutdown = 0
             /\ ~hung']_vars

\* a VMMCALL after the guest has set PE: escalated, nothing changed
C17_Witness ==
    /\ last.op = "handle_vcpuexit"
    /\ last.x.exitcode = VMEXIT_VMMCALL
    /\ last.shutdown = 1
    /\ g_cr0 = X86_CR0_PE
    /\ vmcb.rip = last.x.rip

----------------------------------------------------------------------------
(* Claims about the region notifications, checked under SpecRegion *)

\* the sum of phys_size over the REAL memory regions of a set
RECURSIVE RamSize(_)
RamSize(rs) ==
    IF rs = {} THEN 0
    ELSE LET r == CHOOSE e \in rs : TRUE IN
         (IF {"VMM_REGION_MEMORY", "VMM_REGION_REAL"} \subseteq r.flags
          THEN r.phys_size ELSE 0) + RamSize(rs \ {r})

\* C18: after any sequence of arch_guest_add_region and
\* arch_guest_del_region calls, tot_ram_sz is the sum of phys_size over the
\* REAL memory regions that are registered; adding a RAM region and
\* removing it again gives the counter its previous value.
C18_RamCounter == tot_ram_sz = RamSize(regions)

\* the last call was a notification for an I/O region
IoRegionNotified(l) ==
    /\ l.op \in {"arch_guest_add_region", "arch_guest_del_region"}
    /\ "VMM_REGION_IO" \in l.region.flags

\* the ports of [gphys_addr, gphys_addr + phys_size)
PortsOf(region) ==
    {region.gphys_addr + k : k \in 0 .. (region.phys_size - 1)}

\* the lock calls made before call i, as read holders
HeldBefore(calls, i) ==
    Cardinality({j \in 1 .. i - 1 :
                    calls[j].ev = "vmm_read_lock_irqsave_lite"})
    - Cardinality({j \in 1 .. i - 1 :
                    calls[j].ev = "vmm_read_unlock_irqrestore_lite"})

\* every intercept call on a VCPU of the list is made with the read lock
\* held
LockedTraversals(calls) ==
    \A i \in 1 .. Len(calls) :
        calls[i].ev \in {"enable_ioport_intercept", "disable_ioport_intercept"}
            => HeldBefore(calls, i) > 0

\* C19: arch_guest_add_region for an I/O region leaves the intercept
\* enabled, and arch_guest_del_region leaves it disabled, for every port of
\* [gphys_addr, gphys_addr + phys_size) on every VCPU of the guest's list;
\* every traversal of the list is made with the read lock held and the lock
\* is free on return; the other ports and the RAM counter are unchanged.
C19_IoRegionIntercepts ==
    [][IoRegionNotified(last') =>
          /\ \A v \in Vcpus :
                ioport_intercept'[v] =
                    IF last'.op = "arch_guest_add_region"
                    THEN ioport_intercept[v] \cup PortsOf(last'.region)
                    ELSE ioport_intercept[v] \ PortsOf(last'.region)
          /\ LockedTraversals(last'.calls)
          /\ vcpu_lock' = vcpu_lock
          /\ vcpu_lock' = 0
          /\ tot_ram_sz' = tot_ram_sz]_vars

\* ports 96 and 97 removed while 97..99 had been added: 98 and 99 are
\* left enabled on both VCPUs, with RAM registered
C19_Witness ==
    /\ last.op = "arch_guest_del_region"
    /\ last.region.gphys_addr = 96
    /\ \A v \in Vcpus : ioport_intercept[v] = {98, 99}
    /\ Len(last.calls) = 8
    /\ vcpu_lock = 0
    /\ tot_ram_sz > 0

----------------------------------------------------------------------------
(* Progress of the control-register exits, checked under SpecCr *)

\* the last exit was a read or a write of CR0..CR15
CrExitDone ==
    /\ last.op = "handle_vcpuexit"
    /\ last.x.exitcode \in VMEXIT_CR0_READ .. VMEXIT_CR15_WRITE

\* C20: when the handler of a control-register exit returns, either rip
\* has moved past the trapping instruction or the shutdown hook has been
\* called; no such exit (decode-assist path, CR3 and the other control
\* registers included) returns to the guest with rip unchanged and no
\* escalation.
C20_CrExitProgress ==
    CrExitDone => (vmcb.rip > last.x.rip \/ last.shutdown >= 1)

(* Claims about the decode-assist path of the CR0 write exit, checked *)
(* under SpecCr *)

\* the last exit was a CR0 write on a host with decode assist, of an
\* instruction that the software path fetches and decodes as a MOV to CR0;
\* when exitinfo1 marks the register operand valid it names the decoded
\* source register
AssistedCr0Write ==
    /\ last.op = "handle_vcpuexit"
    /\ last.x.exitcode = VMEXIT_CR0_WRITE
    /\ decode_assist
    /\ X86_CR0_PG \cap last.pre.g_cr0 = {}
    /\ last.x.read_ok
    /\ last.x.dinst.ok
    /\ last.x.dinst.inst_type = "INST_TYPE_MOV_CR"
    /\ last.x.dinst.dst_reg = RM_REG_CR0
    /\ VALID_CRN_TRAP \subseteq last.x.exitinfo1
           => last.x.exitinfo1 \ VALID_CRN_TRAP
                  = WordOf(last.x.dinst.src_reg)

\* the hardware CR0 the software path leaves for the written value
SoftHardwareCr0 ==
    (last.pre.vmcb.cr0
        \cup ((WrittenCr0 \ last.pre.g_cr0) \cap (X86_CR0_PE \cup X86_CR0_PG)))
    \ ((last.pre.g_cr0 \ WrittenCr0) \cap (X86_CR0_CD \cup X86_CR0_NW))

\* C21: with decode assist, a CR0 write exit leaves the shadow CR0, the
\* hardware CR0 and the instruction pointer as the software fetch-and-decode
\* path leaves them for the same source register and value, whether
\* exitinfo1 marks the register operand valid (assisted emulation) or not
\* (fallback to fetch and decode).
C21_AssistMatchesSoftware ==
    AssistedCr0Write =>
        /\ g_cr0 = WrittenCr0
        /\ vmcb.cr0 = SoftHardwareCr0
        /\ vmcb.rip = last.x.rip + last.x.dinst.inst_size

(* Claims about partial emulation of device-memory faults, checked under *)
(* Spec *)

\* the last exit was a page fault on device memory that escalated because
\* the decode was unsupported, the instruction was no move, or the move was
\* memory to memory (a memory source and a destination that is no general
\* register)
EscalatedMmioFault ==
    /\ last.op = "handle_vcpuexit"
    /\ last.x.exitcode = VMEXIT_EXCEPTION_PF
    /\ FaultedDevices # {}
    /\ last.fail \in {"decode", "inst_type", "mem_to_mem"}
    /\ last.fail = "mem_to_mem"
           => /\ last.x.dinst.src_type = "OP_TYPE_MEM"
              /\ last.x.dinst.dst_addr \notin RM_REG_AX .. (RM_REG_MAX - 1)

\* C22: a page fault on device memory that escalates because the move is
\* memory to memory, the decode is unsupported or the instruction is not a
\* move has issued no device-emulation read or write before escalating.
C22_NoCallBeforeEscalation ==
    EscalatedMmioFault => last.dev = << >>

(* Claims about the monotonic population of the shadow page table, checked *)
(* under SpecShadow *)

\* a present entry is present with the same frame in the next state
EntryKept(old, new) == old.present => (new.present /\ new.paddr = old.paddr)

\* C23: across realmode_map_memory and realmode_unmap_memory calls, a
\* page-directory or page-table entry that is present stays present with the
\* same frame; realmode_unmap_memory returns VMM_OK and changes no shadow
\* page-table entry, no bitmap bit and not pgmap_free_cache.
C23_MonotonicPopulation ==
    [][/\ \A i \in PdIndexes : EntryKept(shadow32_pgt[i], shadow32_pgt'[i])
       /\ \A p \in PageIndexes, i \in PtIndexes :
              EntryKept(pg_mem[p][i], pg_mem'[p][i])
       /\ last'.op = "realmode_unmap_memory" =>
              /\ last'.ret = VMM_OK
              /\ shadow_vars' = shadow_vars]_vars

\* C23 witness: an unmap of a mapped address has returned, and the entry that
\* translates the address is still present.
C23_Witness ==
    /\ last.op = "realmode_unmap_memory"
    /\ last.ret = VMM_OK
    /\ last.vaddr \in ok_vaddrs
    /\ shadow32_pgt[PdIndexOf(last.vaddr)].present
    /\ PteOf(shadow32_pgt, pg_mem, last.vaddr).present

(* Claims about the CR0 round trip, checked under SpecCr *)

\* the last exit was a software-decoded read of CR0
SoftCr0Read == SoftCrRead /\ last.x.dinst.src_reg = RM_REG_CR0

\* C24: after a software-decoded CR0 write of a value from any general
\* register the shadow CR0 equals the value in full, and a software-decoded
\* CR0 read that follows yields that value in its destination register,
\* whatever bits the write propagated to the hardware CR0.
C24_Cr0RoundTrip ==
    /\ [](SoftCr0Write => g_cr0 = WrittenCr0)
    /\ [][(SoftCr0Write /\ SoftCr0Read') =>
              DestinationValue' = WrittenCr0]_vars

\* C24 witness: a read into rbx has returned a shadow CR0 with a bit above
\* bit 31, which only a write can have stored, while the hardware CR0 holds
\* another value.
C24_Witness ==
    /\ SoftCr0Read
    /\ last.x.dinst.dst_reg = GUEST_REGS_RBX
    /\ last.pre.g_cr0 = {0, 35}
    /\ DestinationValue = {0, 35}
    /\ vmcb.cr0 # {0, 35}

(* Claims about the number of device-emulation calls of one fault, checked *)
(* under Spec *)

\* C25: one page fault on device memory issues at most one device-emulation
\* call, a read or a write and never both, whatever the decoded move and
\* wherever the region lies (a region that holds addresses equal to
\* general-register ids included).
C25_AtMostOneDeviceCall ==
    (/\ last.op = "handle_vcpuexit"
     /\ last.x.exitcode = VMEXIT_EXCEPTION_PF
     /\ FaultedDevices # {}) =>
        Len(last.dev) <= 1

(* Claims about the value of an emulated store, checked under Spec *)

\* the last exit was a page fault on device memory whose move stores an
\* immediate or a general register to the device (the destination is an
\* address of the device and no register id, the source no address of the
\* device)
MmioStore ==
    /\ MmioFault
    /\ OperandInDevice(last.x.dinst.dst_addr)
    /\ last.x.dinst.dst_addr \notin RM_REG_AX .. (RM_REG_MAX - 1)
    /\ ~OperandInDevice(last.x.dinst.src_addr)
    /\ \/ last.x.dinst.src_type = "OP_TYPE_IMM"
       \/ /\ last.x.dinst.src_type = "OP_TYPE_REG"
          /\ last.x.dinst.src_addr \in RM_REG_AX .. (RM_REG_MAX - 1)

\* the guest's value of the source operand when the exit was taken: the
\* immediate, rax of the control block for the accumulator, g_regs[]
\* for another general register
StoredValue ==
    IF last.x.dinst.src_type = "OP_TYPE_IMM" THEN WordOf(last.x.dinst.src_addr)
    ELSE IF last.x.dinst.src_addr = RM_REG_AX THEN last.x.rax
    ELSE last.x.regs[last.x.dinst.src_addr]

\* C26: on a store to device memory the value passed to the
\* device-emulation write is the immediate when the source is an immediate,
\* the control block's rax when the source is the accumulator, and
\* g_regs[src] for any other general register.
C26_StoredValue ==
    MmioStore =>
        /\ DevCalls("vmm_devemu_emulate_write") # {}
        /\ \A i \in DevCalls("vmm_devemu_emulate_write") :
               last.dev[i].val = StoredValue

============================================================================
